---- MODULE Spec2Model ----
(***************************************************************************)
(* Model of the mkbee word-list scripts: filter_and_export.py              *)
(* (clean_wordlist, selector, export_words, main), compress_wordlist.py    *)
(* (compress_file) and test_puzzle.py (the interactive tester).            *)
(*                                                                         *)
(* A character is a one-character token; a string is a sequence of         *)
(* characters; a word list is a sequence of strings.                       *)
(***************************************************************************)
EXTENDS Integers, Sequences, FiniteSets

(* ---------------------------------------------------------------------- *)
(* Bounds of the model                                                     *)
(* ---------------------------------------------------------------------- *)
MaxLen == 2
MaxWords == 2
MaxMin == 2
MaxOpt == 1
MaxCentral == 1
MaxOthers == 7
MaxQueries == 2

(* ---------------------------------------------------------------------- *)
(* Characters and str methods                                              *)
(* ---------------------------------------------------------------------- *)
\* U+2019 RIGHT SINGLE QUOTATION MARK, U+0130 LATIN CAPITAL LETTER I WITH
\* DOT ABOVE and U+0307 COMBINING DOT ABOVE are written as tokens.
RSQUO == "U+2019"
I_DOT == "U+0130"
DOT_ABOVE == "U+0307"

\* str.lower() on one character: the full Unicode lower-case mapping, which
\* maps U+0130 to the two characters "i" U+0307.
LowerChar(c) ==
    CASE c = "A" -> <<"a">>
      [] c = "B" -> <<"b">>
      [] c = "Q" -> <<"q">>
      [] c = I_DOT -> <<"i", DOT_ABOVE>>
      [] OTHER -> <<c>>

RECURSIVE lower(_)
lower(s) == IF s = <<>> THEN <<>> ELSE LowerChar(Head(s)) \o lower(Tail(s))

\* c in s, for a character c
HasChar(c, s) == \E i \in 1..Len(s) : s[i] = c

\* sub in s, for a string sub (Python's substring test)
Contains(sub, s) ==
    \E k \in 0..(Len(s) - Len(sub)) :
        \A j \in 1..Len(sub) : s[k + j] = sub[j]

\* set(word): the set of the one-character strings of the word
CharSet(s) == { <<s[i]>> : i \in 1..Len(s) }

Range(s) == { s[i] : i \in 1..Len(s) }

(* ---------------------------------------------------------------------- *)
(* filter_and_export.clean_wordlist                                        *)
(* ---------------------------------------------------------------------- *)
HasUnwanted(word) ==
    HasChar("-", word) \/ HasChar("~", word) \/ HasChar("'", word) \/ HasChar(RSQUO, word)

\* CleanStep without seen.add(word).
CleanStepNoSeen(acc, raw_word, min_len) ==
    LET word == lower(raw_word) IN
    IF word \in acc[2] THEN acc
    ELSE IF HasUnwanted(word) THEN acc
    ELSE IF Len(word) < min_len THEN acc
    ELSE <<Append(acc[1], word), acc[2]>>

\* One iteration of the for loop: the state is <<cleaned, seen>>.
CleanStep(acc, raw_word, min_len) ==
    LET word == lower(raw_word) IN
    IF word \in acc[2] THEN acc
    ELSE IF HasUnwanted(word) THEN acc
    ELSE IF Len(word) < min_len THEN acc
    ELSE <<Append(acc[1], word), acc[2] \cup {word}>>

RECURSIVE CleanLoop(_, _, _, _)
CleanLoop(ws, i, acc, min_len) ==
    IF i > Len(ws) THEN acc
    ELSE CleanLoop(ws, i + 1, CleanStep(acc, ws[i], min_len), min_len)

\* clean_wordlist with a loop over words[1:].
clean_wordlist_skip_first(ws, min_len) == CleanLoop(ws, 2, <<<<>>, {}>>, min_len)[1]

clean_wordlist(ws, min_len) == CleanLoop(ws, 1, <<<<>>, {}>>, min_len)[1]

(* ---------------------------------------------------------------------- *)
(* filter_and_export.selector                                              *)
(* ---------------------------------------------------------------------- *)
allowed_letters(mh, opt) == {lower(mh)} \cup { lower(<<opt[i]>>) : i \in 1..Len(opt) }

\* SelectStep with len(word) <= min_length.
SelectStepOffByOne(found, raw_word, mh, opt, min_len) ==
    LET word == lower(raw_word) IN
    IF Len(word) <= min_len \/ ~Contains(lower(mh), word) THEN found
    ELSE IF CharSet(word) \subseteq allowed_letters(mh, opt) THEN Append(found, word)
    ELSE found

\* SelectStep with valid_words.insert(0, word).
SelectStepPrepend(found, raw_word, mh, opt, min_len) ==
    LET word == lower(raw_word) IN
    IF Len(word) < min_len \/ ~Contains(lower(mh), word) THEN found
    ELSE IF CharSet(word) \subseteq allowed_letters(mh, opt) THEN <<word>> \o found
    ELSE found

SelectStep(found, raw_word, mh, opt, min_len) ==
    LET word == lower(raw_word) IN
    IF Len(word) < min_len \/ ~Contains(lower(mh), word) THEN found
    ELSE IF CharSet(word) \subseteq allowed_letters(mh, opt) THEN Append(found, word)
    ELSE found

RECURSIVE SelectLoop(_, _, _, _, _, _)
SelectLoop(ws, i, found, mh, opt, min_len) ==
    IF i > Len(ws) THEN found
    ELSE SelectLoop(ws, i + 1, SelectStep(found, ws[i], mh, opt, min_len), mh, opt, min_len)

\* The loop with break in place of continue: it ends at the first word that
\* is not appended.
RECURSIVE SelectLoopBreak(_, _, _, _, _, _)
SelectLoopBreak(ws, i, found, mh, opt, min_len) ==
    IF i > Len(ws) THEN found
    ELSE IF SelectStep(found, ws[i], mh, opt, min_len) = found THEN found
    ELSE SelectLoopBreak(ws, i + 1, SelectStep(found, ws[i], mh, opt, min_len), mh, opt, min_len)

selector_break(mh, opt, ws, min_len) == SelectLoopBreak(ws, 1, <<>>, mh, opt, min_len)

selector(mh, opt, ws, min_len) == SelectLoop(ws, 1, <<>>, mh, opt, min_len)

(* ---------------------------------------------------------------------- *)
(* Inputs of clean_wordlist and selector                                   *)
(* ---------------------------------------------------------------------- *)
WordChars == {"a", "b", "A", "-", "~", "'", RSQUO}
CoreChars == {"a", "b", "A"}
ReqChars == {"A", "-"}
OptChars == {"B"}

SeqUpTo(S, n) == UNION { [1..k -> S] : k \in 0..n }

\* Word lists: up to MaxWords words over WordChars, and lists of one more
\* word over CoreChars (a word, another word, and the first one again).
RawLists ==
    SeqUpTo(SeqUpTo(WordChars, MaxLen), MaxWords)
        \cup [1..(MaxWords + 1) -> SeqUpTo(CoreChars, MaxLen)]

\* Values of variables that hold nothing yet: no string, no word list.
NoText == <<"<none>">>
NoList == <<NoText>>
\* No call of selector in the current iteration.
NoCall == [invoked |-> FALSE, must_have |-> NoText, optional |-> NoText]

(* ---------------------------------------------------------------------- *)
(* Files, console input and the tester's helpers                           *)
(* ---------------------------------------------------------------------- *)
\* selector's default min_length
DefaultMinLength == 4
\* the number of other letters test_puzzle.main requires
OtherLetters == 6

\* What a path holds: nothing, a file that is not JSON, a file of zero bytes
\* (not JSON either), or a JSON array (its entries).
Missing == <<<<"<missing>">>>>
Malformed == <<<<"<not json>">>>>
ZeroBytes == <<<<"<zero bytes>">>>>
\* An array entry that is not a string (a number, null).
NonStr == <<"<not a string>">>

HoldsList(content) == content \notin {Missing, Malformed, ZeroBytes}

abba == <<"a", "b", "b", "a">>
baab == <<"b", "a", "a", "b">>
aaaa == <<"a", "a", "a", "a">>
Abba == <<"A", "b", "b", "a">>
a_ba == <<"a", "-", "b", "a">>

\* The word lists a JSON file holds in the model.
FileLists ==
    { <<>>, <<baab, abba, aaaa, <<"a", "b">>>>, <<Abba, a_ba, abba>>, <<abba, NonStr>> }

RAW == "raw_wordlist.json"
MK == "mk_words.json"
GZ == "mk_words.json.gz"
BR == "mk_words.json.br"
DICT == "../data/mk_words.json"
Files == {RAW, MK, GZ, BR, DICT}

\* str.isalpha() on one character
IsAlpha(c) == c \in {"a", "b", "q", "i", "A", "B", "Q", I_DOT}

IsSpace(c) == c = " "

\* str.strip()
RECURSIVE lstrip(_)
lstrip(s) == IF s # <<>> /\ IsSpace(Head(s)) THEN lstrip(Tail(s)) ELSE s

RECURSIVE rstrip(_)
rstrip(s) ==
    IF s # <<>> /\ IsSpace(s[Len(s)]) THEN rstrip(SubSeq(s, 1, Len(s) - 1)) ELSE s

strip(s) == rstrip(lstrip(s))

\* input(...).strip().lower() of the central prompt
ParseCentral(typed) == lower(strip(typed))

\* ParseOthers without the isalpha() filter.
ParseOthersKeepAll(typed) == lower(strip(typed))

\* [c for c in others_input if c.isalpha()] of the stripped, lowercased entry
ParseOthers(typed) == SelectSeq(lower(strip(typed)), IsAlpha)

\* CentralVerdict with break in place of continue.
CentralVerdictBreak(c) ==
    IF c = <<"q">> THEN "break"
    ELSE IF Len(c) # 1 THEN "break"
    ELSE "ok"

\* What the loop does with the central entry: break, continue with an
\* error, or go on to the second prompt.
CentralVerdict(c) ==
    IF c = <<"q">> THEN "break"
    ELSE IF Len(c) # 1 THEN "error"
    ELSE "ok"

\* OthersVerdict with len(others) < 6.
OthersVerdictAtLeast(o) == IF Len(o) < OtherLetters THEN "error" ELSE "ok"

OthersVerdict(o) == IF Len(o) # OtherLetters THEN "error" ELSE "ok"

\* Handler with break in the except Exception clause.
HandlerBreaks(e) ==
    IF e = "KeyboardInterrupt" THEN [pc |-> "returned", out |-> "Exiting..."]
    ELSE [pc |-> "returned", out |-> "An error occurred"]

\* The except clauses of the loop: where it goes and what it prints.
Handler(e) ==
    IF e = "KeyboardInterrupt" THEN [pc |-> "returned", out |-> "Exiting..."]
    ELSE [pc |-> "central", out |-> "An error occurred"]

\* Code points of the letters of the dictionary words.
CodePoint(c) ==
    CASE c = "a" -> 97
      [] c = "b" -> 98
      [] c = "-" -> 45
      [] c = "A" -> 65
      [] OTHER -> 0

\* u < v for strings (Python compares code points, then lengths)
RECURSIVE StrLess(_, _)
StrLess(u, v) ==
    IF v = <<>> THEN FALSE
    ELSE IF u = <<>> THEN TRUE
    ELSE IF CodePoint(Head(u)) # CodePoint(Head(v))
         THEN CodePoint(Head(u)) < CodePoint(Head(v))
    ELSE StrLess(Tail(u), Tail(v))

\* (len(u), u) < (len(v), v)
KeyLess(u, v) == Len(u) < Len(v) \/ (Len(u) = Len(v) /\ StrLess(u, v))

RECURSIVE InsertSorted(_, _)
InsertSorted(w, sorted) ==
    IF sorted = <<>> THEN <<w>>
    ELSE IF KeyLess(w, Head(sorted)) THEN <<w>> \o sorted
    ELSE <<Head(sorted)>> \o InsertSorted(w, Tail(sorted))

\* valid_words.sort(key=lambda w: (len(w), w))
RECURSIVE SortWords(_)
SortWords(ws) ==
    IF ws = <<>> THEN <<>>
    ELSE InsertSorted(ws[Len(ws)], SortWords(SubSeq(ws, 1, Len(ws) - 1)))

\* [w for w in valid_words if set(w) == all_letters]
Pangrams(valid, c, o) ==
    LET all_letters == {c} \cup { <<o[i]>> : i \in 1..Len(o) }
        IsPangram(w) == CharSet(w) = all_letters
    IN SelectSeq(valid, IsPangram)

\* selector raises AttributeError at an entry that has no lower()
SelectorRaises(ws) == \E i \in 1..Len(ws) : ws[i] = NonStr

CentralChars == {"A", "Q", "1", " ", I_DOT}
OtherChars == {"B", " "}
CentralInputs == SeqUpTo(CentralChars, MaxCentral)
OtherInputs == SeqUpTo(OtherChars, MaxOthers)

VARIABLES raw, must_have, optional, clean_min, sel_min,
          cleaned, recleaned, selected, sel_of_clean, clean_of_sel,
          fs, has_brotli, ran, outcome, created,
          pc, words, typed_central, typed_others, central, others,
          valid_words, pangrams, sel_call, out, exc, stdin_eof, queries

pureVars == <<raw, must_have, optional, clean_min, sel_min,
              cleaned, recleaned, selected, sel_of_clean, clean_of_sel>>

\* The file store, whether brotli imports, and the last script run:
\* which one, how it ended and the files it wrote.
scriptVars == <<fs, has_brotli, ran, outcome, created>>

\* test_puzzle.main: its position, its locals in the current iteration,
\* what it printed last, the exception raised in the last step, and the
\* console input's state.
testerVars == <<pc, words, typed_central, typed_others, central, others,
                valid_words, pangrams, sel_call, out, exc, stdin_eof, queries>>

vars == <<pureVars, scriptVars, testerVars>>

PureInit ==
    /\ must_have = NoText
    /\ optional = NoText
    /\ clean_min = 0
    /\ sel_min = 0
    /\ cleaned = NoList
    /\ recleaned = NoList
    /\ selected = NoList
    /\ sel_of_clean = NoList
    /\ clean_of_sel = NoList

ScriptInit ==
    /\ ran = "none"
    /\ outcome = "none"
    /\ created = {}

TesterInit ==
    /\ pc = "main"
    /\ words = <<>>
    /\ typed_central = NoText
    /\ typed_others = NoText
    /\ central = NoText
    /\ others = NoText
    /\ valid_words = NoList
    /\ pangrams = NoList
    /\ sel_call = NoCall
    /\ out = "none"
    /\ exc = "none"
    /\ stdin_eof = FALSE
    /\ queries = 0

NoFiles == [f \in Files |-> Missing]

\* The pure functions, called on every word list of the bounds.
Init ==
    /\ raw \in RawLists
    /\ PureInit
    /\ fs = NoFiles
    /\ has_brotli = FALSE
    /\ ScriptInit
    /\ TesterInit

\* cleaned = clean_wordlist(raw, min_length)
Clean ==
    /\ cleaned = NoList
    /\ \E m \in 0..MaxMin :
        /\ clean_min' = m
        /\ cleaned' = clean_wordlist(raw, m)
    /\ UNCHANGED <<raw, must_have, optional, sel_min, recleaned, selected,
                   sel_of_clean, clean_of_sel>>
    /\ UNCHANGED <<scriptVars, testerVars>>

\* clean_wordlist applied to its own output
CleanAgain ==
    /\ cleaned # NoList
    /\ recleaned = NoList
    /\ recleaned' = clean_wordlist(cleaned, clean_min)
    /\ UNCHANGED <<raw, must_have, optional, clean_min, sel_min, cleaned, selected,
                   sel_of_clean, clean_of_sel>>
    /\ UNCHANGED <<scriptVars, testerVars>>

\* selected = selector(must_have, optional, raw, min_length)
Select ==
    /\ recleaned # NoList
    /\ selected = NoList
    /\ \E c \in ReqChars, opt \in SeqUpTo(OptChars, MaxOpt), m \in 0..MaxMin :
        /\ must_have' = <<c>>
        /\ optional' = opt
        /\ sel_min' = m
        /\ selected' = selector(<<c>>, opt, raw, m)
    /\ UNCHANGED <<raw, clean_min, cleaned, recleaned, sel_of_clean, clean_of_sel>>
    /\ UNCHANGED <<scriptVars, testerVars>>

\* selector applied to the cleaned list
SelectCleaned ==
    /\ selected # NoList
    /\ sel_of_clean = NoList
    /\ sel_of_clean' = selector(must_have, optional, cleaned, sel_min)
    /\ UNCHANGED <<raw, must_have, optional, clean_min, sel_min, cleaned, recleaned,
                   selected, clean_of_sel>>
    /\ UNCHANGED <<scriptVars, testerVars>>

\* clean_wordlist applied to the selected list
CleanSelected ==
    /\ sel_of_clean # NoList
    /\ clean_of_sel = NoList
    /\ clean_of_sel' = clean_wordlist(selected, clean_min)
    /\ UNCHANGED <<raw, must_have, optional, clean_min, sel_min, cleaned, recleaned,
                   selected, sel_of_clean>>
    /\ UNCHANGED <<scriptVars, testerVars>>

Next == Clean \/ CleanAgain \/ Select \/ SelectCleaned \/ CleanSelected

Spec == Init /\ [][Next]_vars

(* ---------------------------------------------------------------------- *)
(* test_puzzle.main                                                        *)
(* ---------------------------------------------------------------------- *)
\* Lines 9-21: find and load the dictionary, then enter the loop.
TesterMain ==
    /\ pc = "main"
    /\ exc' = IF fs[DICT] \in {Malformed, ZeroBytes} THEN "JSONDecodeError" ELSE "none"
    /\ IF fs[DICT] = Missing
       THEN /\ out' = "Error: Dictionary not found"
            /\ pc' = "returned"
            /\ words' = words
       ELSE IF fs[DICT] \in {Malformed, ZeroBytes}
       THEN /\ out' = "Traceback"
            /\ pc' = "crashed"
            /\ words' = words
       ELSE /\ out' = "Loaded"
            /\ pc' = "central"
            /\ words' = fs[DICT]
    /\ UNCHANGED <<typed_central, typed_others, central, others, valid_words,
                   pangrams, sel_call, stdin_eof, queries>>
    /\ UNCHANGED <<fs, has_brotli, created>>
    /\ ran' = "test_puzzle"
    /\ outcome' = IF fs[DICT] = Missing THEN "handled error"
                  ELSE IF fs[DICT] \in {Malformed, ZeroBytes} THEN "unhandled exception"
                  ELSE "running"
    /\ UNCHANGED pureVars

\* The top of an iteration: the locals of the iteration are not yet set.
NewIteration ==
    /\ queries' = queries + 1
    /\ typed_others' = NoText
    /\ others' = NoText
    /\ valid_words' = NoList
    /\ pangrams' = NoList
    /\ sel_call' = NoCall

\* Lines 25-31: an entry at the central-letter prompt.
EnterCentral ==
    /\ pc = "central"
    /\ queries < MaxQueries
    /\ ~stdin_eof
    /\ \E typed \in CentralInputs :
        LET c == ParseCentral(typed)
            v == CentralVerdict(c)
        IN /\ typed_central' = typed
           /\ central' = c
           /\ pc' = CASE v = "break" -> "returned"
                      [] v = "error" -> "central"
                      [] OTHER -> "others"
           /\ out' = IF v = "error" THEN "Error: Please enter exactly one central letter."
                     ELSE "none"
    /\ NewIteration
    /\ exc' = "none"
    /\ UNCHANGED <<words, stdin_eof>>
    /\ outcome' = IF pc' = "returned" THEN "returned" ELSE outcome
    /\ UNCHANGED <<fs, has_brotli, ran, created>>
    /\ UNCHANGED pureVars

\* Lines 33-73: an entry at the second prompt, the search and its report.
EnterOthers ==
    /\ pc = "others"
    /\ ~stdin_eof
    /\ \E typed \in OtherInputs :
        LET o == ParseOthers(typed) IN
        /\ typed_others' = typed
        /\ others' = o
        /\ IF OthersVerdict(o) = "error"
           THEN /\ out' = "Error: 6 letters are required."
                /\ exc' = "none"
                /\ sel_call' = NoCall
                /\ valid_words' = NoList
                /\ pangrams' = NoList
                /\ pc' = "central"
           ELSE /\ sel_call' = [invoked |-> TRUE, must_have |-> central, optional |-> o]
                /\ IF SelectorRaises(words)
                   THEN /\ exc' = "AttributeError"
                        /\ out' = Handler("AttributeError").out
                        /\ pc' = Handler("AttributeError").pc
                        /\ valid_words' = NoList
                        /\ pangrams' = NoList
                   ELSE LET found == SortWords(selector(central, o, words, DefaultMinLength)) IN
                        /\ exc' = "none"
                        /\ valid_words' = found
                        /\ pangrams' = IF found = <<>> THEN NoList
                                       ELSE Pangrams(found, central, o)
                        /\ out' = IF found = <<>> THEN "No words found!" ELSE "Found"
                        /\ pc' = "central"
    /\ UNCHANGED <<words, typed_central, central, stdin_eof, queries>>
    /\ UNCHANGED scriptVars
    /\ UNCHANGED pureVars

\* input() raises EOFError: the console input has ended, and every later
\* input() raises it again.
EndOfInput ==
    /\ pc \in {"central", "others"}
    /\ pc = "central" => queries < MaxQueries
    /\ exc' = "EOFError"
    /\ stdin_eof' = TRUE
    /\ out' = Handler("EOFError").out
    /\ pc' = Handler("EOFError").pc
    /\ IF pc = "central"
       THEN /\ NewIteration
            /\ typed_central' = NoText
            /\ central' = NoText
       ELSE UNCHANGED <<queries, typed_others, others, valid_words, pangrams, sel_call,
                        typed_central, central>>
    /\ UNCHANGED words
    /\ outcome' = IF pc' = "returned" THEN "returned" ELSE outcome
    /\ UNCHANGED <<fs, has_brotli, ran, created>>
    /\ UNCHANGED pureVars

\* Ctrl-C at a prompt: input() raises KeyboardInterrupt.
Interrupt ==
    /\ pc \in {"central", "others"}
    /\ pc = "central" => queries < MaxQueries
    /\ exc' = "KeyboardInterrupt"
    /\ out' = Handler("KeyboardInterrupt").out
    /\ pc' = Handler("KeyboardInterrupt").pc
    /\ IF pc = "central"
       THEN /\ NewIteration
            /\ typed_central' = NoText
            /\ central' = NoText
       ELSE UNCHANGED <<queries, typed_others, others, valid_words, pangrams, sel_call,
                        typed_central, central>>
    /\ UNCHANGED <<words, stdin_eof>>
    /\ outcome' = IF pc' = "returned" THEN "returned" ELSE outcome
    /\ UNCHANGED <<fs, has_brotli, ran, created>>
    /\ UNCHANGED pureVars

\* The tester started with each content of the dictionary file.
InitTester ==
    /\ raw = <<>>
    /\ PureInit
    /\ fs \in { [NoFiles EXCEPT ![DICT] = d] : d \in {Missing, Malformed} \cup FileLists }
    /\ has_brotli = FALSE
    /\ ScriptInit
    /\ TesterInit

NextTester == TesterMain \/ EnterCentral \/ EnterOthers \/ EndOfInput \/ Interrupt

SpecTester == InitTester /\ [][NextTester]_vars

(* ---------------------------------------------------------------------- *)
(* filter_and_export.main and compress_wordlist.compress_file              *)
(* ---------------------------------------------------------------------- *)
\* MIN_LENGTH of filter_and_export.main
MIN_LENGTH == 4

GzBlob == <<<<"<gzip stream>">>>>
BrBlob == <<<<"<brotli stream>">>>>

\* How filter_and_export.main ends on each content of raw_wordlist.json:
\* open() and json.load() raise on a missing or malformed file,
\* clean_wordlist raises on an entry without lower(), and the summary
\* divides by len(raw_words) after the export.
FilterOutcome(content) ==
    IF content = Missing THEN [exc |-> "FileNotFoundError", exported |-> FALSE]
    ELSE IF content \in {Malformed, ZeroBytes} THEN [exc |-> "JSONDecodeError", exported |-> FALSE]
    ELSE IF SelectorRaises(content) THEN [exc |-> "AttributeError", exported |-> FALSE]
    ELSE IF Len(content) = 0 THEN [exc |-> "ZeroDivisionError", exported |-> TRUE]
    ELSE [exc |-> "none", exported |-> TRUE]

\* python3 filter_and_export.py
FilterMain ==
    LET r == FilterOutcome(fs[RAW]) IN
    /\ ran' = "filter_and_export"
    /\ exc' = r.exc
    /\ outcome' = IF r.exc = "none" THEN "ok" ELSE "unhandled exception"
    /\ out' = IF r.exc = "none" THEN "Summary" ELSE "Traceback"
    /\ IF r.exported
       THEN /\ fs' = [fs EXCEPT ![MK] = clean_wordlist(fs[RAW], MIN_LENGTH)]
            /\ created' = {MK}
       ELSE /\ fs' = fs
            /\ created' = {}
    /\ UNCHANGED has_brotli
    /\ UNCHANGED <<pc, words, typed_central, typed_others, central, others,
                   valid_words, pangrams, sel_call, stdin_eof, queries>>
    /\ UNCHANGED pureVars

\* python3 compress_wordlist.py: compress_file('mk_words.json')
CompressFile ==
    /\ ran' = "compress_wordlist"
    /\ IF fs[MK] = Missing
       THEN /\ out' = "File not found"
            /\ outcome' = "handled error"
            /\ exc' = "none"
            /\ fs' = fs
            /\ created' = {}
       ELSE IF fs[MK] = ZeroBytes
       THEN /\ out' = "Traceback"
            /\ outcome' = "unhandled exception"
            /\ exc' = "ZeroDivisionError"
            /\ fs' = [fs EXCEPT ![GZ] = GzBlob]
            /\ created' = {GZ}
       ELSE /\ out' = "Summary"
            /\ outcome' = "ok"
            /\ exc' = "none"
            /\ fs' = [fs EXCEPT ![GZ] = GzBlob,
                                ![BR] = IF has_brotli THEN BrBlob ELSE fs[BR]]
            /\ created' = IF has_brotli THEN {GZ, BR} ELSE {GZ}
    /\ UNCHANGED has_brotli
    /\ UNCHANGED <<pc, words, typed_central, typed_others, central, others,
                   valid_words, pangrams, sel_call, stdin_eof, queries>>
    /\ UNCHANGED pureVars

JsonContents == {Missing, Malformed, ZeroBytes} \cup FileLists

\* The three scripts run from every content of the files they read.
InitScripts ==
    /\ raw = <<>>
    /\ PureInit
    /\ fs \in { [f \in Files |->
                  CASE f = RAW -> c.r
                    [] f = MK -> c.m
                    [] f = DICT -> c.d
                    [] OTHER -> Missing] :
                c \in [r : JsonContents, m : JsonContents, d : JsonContents] }
    /\ has_brotli \in BOOLEAN
    /\ ScriptInit
    /\ TesterInit

NextScripts == FilterMain \/ CompressFile \/ TesterMain

SpecScripts == InitScripts /\ [][NextScripts]_vars

(* ---------------------------------------------------------------------- *)
(* Properties of selector and clean_wordlist                               *)
(* ---------------------------------------------------------------------- *)
LowerAll(ws) == [i \in 1..Len(ws) |-> lower(ws[i])]

\* The puzzle's alphabet as the specification states it.
Allowed == {lower(must_have)} \cup { lower(<<optional[i]>>) : i \in 1..Len(optional) }

\* The three conditions of the filtering rule on a lowercased word.
MeetsRule(w) ==
    /\ Len(w) >= sel_min
    /\ Contains(lower(must_have), w)
    /\ \A i \in 1..Len(w) : <<w[i]>> \in Allowed

\* C1: selector returns a lowercased word of the input if and only if the
\* word is at least min_length long, contains the lowercased required letter
\* and uses only allowed letters: nothing meeting the three conditions is
\* left out and nothing failing one is returned.
C1_SelectorIffRule ==
    selected # NoList =>
        /\ \A k \in 1..Len(selected) :
              /\ selected[k] \in Range(LowerAll(raw))
              /\ MeetsRule(selected[k])
        /\ \A i \in 1..Len(raw) :
              MeetsRule(lower(raw[i])) => lower(raw[i]) \in Range(selected)

\* A call that returned one word and left out three kinds of failing words.
C1_Witness ==
    /\ selected # NoList
    /\ Len(raw) = 3
    /\ Len(selected) = 1
    /\ sel_min = 2
    /\ optional # <<>>
    /\ \E i \in 1..3 : raw[i] # lower(raw[i]) /\ lower(raw[i]) \in Range(selected)
    /\ \E i \in 1..3 : Len(raw[i]) >= sel_min /\ ~Contains(lower(must_have), lower(raw[i]))

NoDuplicates(ws) == \A i, j \in 1..Len(ws) : i # j => lower(ws[i]) # lower(ws[j])

\* C2: the output of clean_wordlist has no two entries equal
\* case-insensitively, every entry is at least min_length long, and no entry
\* contains '-', '~', the apostrophe or U+2019.
C2_CleanedIsClean ==
    cleaned # NoList =>
        /\ NoDuplicates(cleaned)
        /\ \A k \in 1..Len(cleaned) :
              /\ Len(cleaned[k]) >= clean_min
              /\ \A i \in 1..Len(cleaned[k]) : cleaned[k][i] \notin {"-", "~", "'", RSQUO}

\* Cleaning dropped a case-insensitive duplicate and kept two words.
C2_Witness ==
    /\ cleaned # NoList
    /\ Len(raw) = 3
    /\ Len(cleaned) = 2
    /\ clean_min = 2
    /\ \E i, j \in 1..3 : i < j /\ raw[i] # raw[j] /\ lower(raw[i]) = lower(raw[j])
                            /\ lower(raw[i]) \in Range(cleaned)

\* C3: cleaning is idempotent: cleaning the cleaned list returns it unchanged.
C3_CleanIdempotent == recleaned # NoList => recleaned = cleaned

\* The second cleaning ran on a non-empty list that the first one had shortened.
C3_Witness ==
    /\ recleaned # NoList
    /\ Len(cleaned) >= 2
    /\ Len(cleaned) < Len(raw)

\* res is a subsequence of src: its elements are elements of src at
\* increasing positions.
IsSubsequence(res, src) ==
    \E f \in [1..Len(res) -> 1..Len(src)] :
        /\ \A k \in 1..Len(res) : res[k] = src[f[k]]
        /\ \A k \in 1..(Len(res) - 1) : f[k] < f[k + 1]

\* Position of the first word of src whose lowercase form is w (0: none).
FirstOccurrence(w, src) ==
    IF \E i \in 1..Len(src) : lower(src[i]) = w
    THEN CHOOSE i \in 1..Len(src) :
            /\ lower(src[i]) = w
            /\ \A j \in 1..(i - 1) : lower(src[j]) # w
    ELSE 0

InFirstOccurrenceOrder(res, src) ==
    /\ \A k \in 1..Len(res) : FirstOccurrence(res[k], src) > 0
    /\ \A k \in 1..(Len(res) - 1) :
          FirstOccurrence(res[k], src) < FirstOccurrence(res[k + 1], src)

\* C4 as stated: the list selector returns is a subsequence of the input
\* list itself (each returned element is an element of words), and
\* clean_wordlist lists its words in first-occurrence order.
C4_Original ==
    /\ selected # NoList => IsSubsequence(selected, raw)
    /\ cleaned # NoList => InFirstOccurrenceOrder(cleaned, raw)

\* C4 (amended): the list selector returns is a subsequence of the
\* lowercased input list (each returned element is the lowercase form of an
\* element of words, at increasing input positions), and clean_wordlist lists
\* its words in the order of their first occurrence in the input.
C4_OrderPreserved ==
    /\ selected # NoList => IsSubsequence(selected, LowerAll(raw))
    /\ cleaned # NoList => InFirstOccurrenceOrder(cleaned, raw)

\* Both functions returned two different words of a three-word input whose
\* third word repeats the first in another case.
C4_Witness ==
    /\ selected # NoList
    /\ Len(raw) = 3
    /\ raw[1] # raw[3]
    /\ lower(raw[1]) = lower(raw[3])
    /\ Len(cleaned) = 2
    /\ Len(selected) >= 2
    /\ \E k \in 1..(Len(selected) - 1) : selected[k] # selected[k + 1]

\* C10: cleaning and selecting commute, selector of a cleaned list returns
\* no word twice.
C10_CleanSelectCommute ==
    /\ clean_of_sel # NoList => clean_of_sel = sel_of_clean
    /\ sel_of_clean # NoList => NoDuplicates(sel_of_clean)

\* selector of the raw list returned a word twice, and both orders of
\* composition returned that word once.
C10_Witness ==
    /\ clean_of_sel # NoList
    /\ ~NoDuplicates(selected)
    /\ Len(clean_of_sel) >= 1
    /\ Len(clean_of_sel) < Len(selected)
    /\ clean_min # sel_min

(* ---------------------------------------------------------------------- *)
(* Properties of the interactive tester                                    *)
(* ---------------------------------------------------------------------- *)
CentralMsg == "Error: Please enter exactly one central letter."
OthersMsg == "Error: 6 letters are required."

\* The central entry, stripped and lowercased, is neither 'q' nor one
\* character long.
BadCentral ==
    /\ typed_central # NoText
    /\ lower(strip(typed_central)) # <<"q">>
    /\ Len(lower(strip(typed_central))) # 1

\* The others entry, lowercased, does not hold exactly six letters.
BadOthers ==
    /\ typed_others # NoText
    /\ Cardinality({ i \in 1..Len(lower(typed_others)) : IsAlpha(lower(typed_others)[i]) }) # 6

\* An entry holds a non-alphabetic character (surrounding blanks aside).
NonAlphaEntry ==
    \/ /\ typed_central # NoText
       /\ \E i \in 1..Len(strip(typed_central)) : ~IsAlpha(strip(typed_central)[i])
    \/ /\ typed_others # NoText
       /\ \E i \in 1..Len(strip(typed_others)) : ~IsAlpha(strip(typed_others)[i])

\* C5 as stated: a query with a central entry that is not one letter, an
\* others entry that does not give six letters, or an entry with
\* non-alphabetic characters never reaches selector, and is answered by an
\* error message at the next central-letter prompt.
C5_Original ==
    (BadCentral \/ BadOthers \/ NonAlphaEntry) =>
        /\ ~sel_call.invoked
        /\ pc = "central" => out \in {CentralMsg, OthersMsg}

\* C5 (amended): a query whose central entry, stripped and lowercased, is
\* not exactly one character, or whose others entry does not hold exactly
\* six alphabetic characters, is rejected with an error message without
\* invoking selector, and the loop continues at the next central-letter
\* prompt.
C5_InvalidQueryRejected ==
    /\ BadCentral => (out = CentralMsg /\ ~sel_call.invoked /\ pc = "central")
    /\ BadOthers => (out = OthersMsg /\ ~sel_call.invoked /\ pc = "central")

\* A second query was rejected for seven letters after a first was rejected.
C5_Witness ==
    /\ BadOthers
    /\ queries = 2
    /\ Len(ParseOthers(typed_others)) = 7
    /\ out = OthersMsg
    /\ pc = "central"

\* C7: an exception other than KeyboardInterrupt raised while a query is
\* handled is reported as a message and the loop goes on to the next
\* central-letter prompt.
C7_ExceptionCaught ==
    [][(pc \in {"central", "others"} /\ exc' \notin {"none", "KeyboardInterrupt"})
          => (out' = "An error occurred" /\ pc' = "central")]_vars

\* selector raised in the second query, and the tester is at the prompt.
C7_Witness ==
    /\ exc = "AttributeError"
    /\ sel_call.invoked
    /\ queries = 2
    /\ out = "An error occurred"
    /\ pc = "central"

\* C8: whenever selector is invoked, the central argument is one
\* lowercased character other than 'q' and the optional argument is a list
\* of exactly six alphabetic characters.
C8_SelectorArguments ==
    sel_call.invoked =>
        /\ Len(sel_call.must_have) = 1
        /\ lower(sel_call.must_have) = sel_call.must_have
        /\ sel_call.must_have # <<"q">>
        /\ Len(sel_call.optional) = 6
        /\ \A i \in 1..Len(sel_call.optional) : IsAlpha(sel_call.optional[i])

\* selector was invoked after entries with an upper-case central letter and
\* a blank among the other letters.
C8_Witness ==
    /\ sel_call.invoked
    /\ \E i \in 1..Len(typed_central) : typed_central[i] = "A"
    /\ Len(typed_others) = 7
    /\ typed_others[3] = " "

\* What C9 says of one step taken inside the loop.
LoopStep ==
    pc \in {"central", "others"} =>
        /\ pc' \notin {"central", "others"} =>
              \/ exc' = "KeyboardInterrupt"
              \/ /\ pc = "central"
                 /\ typed_central' # NoText
                 /\ lower(strip(typed_central')) = <<"q">>
        /\ (stdin_eof /\ exc' # "KeyboardInterrupt") =>
              (exc' = "EOFError" /\ pc' = "central")

\* C9: the loop is left only on a central entry of 'q' (stripped and
\* lowercased) or on KeyboardInterrupt; after any other event it is at a
\* prompt again, and once the console input has ended only KeyboardInterrupt
\* leaves it.
C9_LoopExits == [][LoopStep]_vars

\* The prompt failed again after the input had ended, in the last iteration
\* of the bound, and the loop is at the prompt once more.
C9_Witness ==
    /\ stdin_eof
    /\ exc = "EOFError"
    /\ queries = MaxQueries
    /\ pc = "central"

(* ---------------------------------------------------------------------- *)
(* Properties of the scripts                                               *)
(* ---------------------------------------------------------------------- *)
\* The last script ran without the file it reads.
InputWasMissing ==
    \/ ran = "filter_and_export" /\ fs[RAW] = Missing
    \/ ran = "compress_wordlist" /\ fs[MK] = Missing
    \/ ran = "test_puzzle" /\ fs[DICT] = Missing

\* C6: a script whose input file does not exist reports an error, writes no
\* file and ends as a handled condition, not with an unhandled exception.
C6_MissingInputHandled ==
    InputWasMissing =>
        /\ outcome = "handled error"
        /\ out \in {"File not found", "Error: Dictionary not found"}
        /\ created = {}

====
